---- MODULE Spec2Model ----
(***************************************************************************)
(* react-modal-manager: the component registry, the zustand modal store,   *)
(* the createModal handles with their private id stacks, the ModalRenderer *)
(* render pass and the ModalProvider mount / unmount lifecycle.            *)
(*                                                                         *)
(* Strings model JavaScript strings.  A JavaScript Map is a sequence of    *)
(* [key, value] entries in insertion order.  Every prop value is a record  *)
(* [type, v] so that values of different JavaScript types stay comparable. *)
(***************************************************************************)
EXTENDS Integers, Sequences, FiniteSets, TLC

VARIABLES
  modals,             \* useModalStore state.modals : Map<string, ModalState>
  componentRegistry,  \* WeakMap<ModalComponent, string>
  componentIdMap,     \* Map<string, ModalComponent>
  nanoidCount,        \* how many ids nanoid() has produced, per call site
  handles,            \* handles[h] : the component the h-th createModal call bound
  ids,                \* ids[h]     : the private `ids` array of the h-th handle
  mounted,            \* a ModalProvider is mounted
  rendered,           \* what the last ModalRenderer pass returned and warned
  opened,             \* history: opened[h] = every id returned by handle h's open, in order
  popped,             \* history: the ids that some handle's close has popped
  collided,           \* history: openModal was called directly with a handle-generated id
  directCalls,        \* history: how many times the application called openModal or setState
  last                \* history: the operation that produced this state

vars ==
  <<modals, componentRegistry, componentIdMap, nanoidCount, handles, ids,
    mounted, rendered, opened, popped, collided, directCalls, last>>

----------------------------------------------------------------------------
(* Bounds of the model *)

MaxOpens ==
  2

(* Values the callers of the model pass in *)

Components ==
  {"SimpleModal", "TestModal"}

TestId ==
  "test-id"

Str(s) ==
  [type |-> "string", v |-> s]

UserFn ==
  [type |-> "userFunction", v |-> "fn"]

CloseFn(id) ==
  [type |-> "closeModal", v |-> id]

Undefined ==
  [defined |-> FALSE, fields |-> <<>>]

Obj(f) ==
  [defined |-> TRUE, fields |-> f]

UserProps ==
  { Undefined,
    Obj("title" :> Str("A")),
    Obj("title" :> Str("B") @@ "id" :> Str("custom") @@ "close" :> UserFn) }

----------------------------------------------------------------------------
(* JavaScript Map, insertion ordered *)

NewMap ==
  <<>>

MapKeys(m) ==
  { m[i].key : i \in DOMAIN m }

MapHas(m, k) ==
  k \in MapKeys(m)

MapIndex(m, k) ==
  CHOOSE i \in DOMAIN m : m[i].key = k

MapGet(m, k) ==
  m[MapIndex(m, k)].value

MapSetFront(m, k, v) ==
  IF MapHas(m, k)
    THEN [m EXCEPT ![MapIndex(m, k)] = [key |-> k, value |-> v]]
    ELSE <<[key |-> k, value |-> v]>> \o m

(* a set that leaves the value of a key the Map already has *)
MapSetKeepFirst(m, k, v) ==
  IF MapHas(m, k) THEN m ELSE Append(m, [key |-> k, value |-> v])

MapSet(m, k, v) ==
  IF MapHas(m, k)
    THEN [m EXCEPT ![MapIndex(m, k)] = [key |-> k, value |-> v]]
    ELSE Append(m, [key |-> k, value |-> v])

(* a delete by position that, like splice(indexOf(k), 1), drops the last entry
   when the key is absent *)
MapDeleteSplice(m, k) ==
  IF MapHas(m, k)
    THEN SelectSeq(m, LAMBDA e : e.key # k)
    ELSE SubSeq(m, 1, Len(m) - 1)

(* a delete that drops the entry and everything inserted after it *)
MapDeleteFrom(m, k) ==
  IF MapHas(m, k) THEN SubSeq(m, 1, MapIndex(m, k) - 1) ELSE m

MapDelete(m, k) ==
  SelectSeq(m, LAMBDA e : e.key # k)

(* the values, newest entry first *)
MapValuesReversed(m) ==
  [i \in DOMAIN m |-> m[Len(m) + 1 - i].value]

MapValues(m) ==
  [i \in DOMAIN m |-> m[i].value]

----------------------------------------------------------------------------
(* nanoid(): every call returns a string no earlier call returned.  The strings
   are named by call site ("m": createModal's open, "c": registerComponent) and
   by how many ids that site has drawn *)

nanoidStuck(site, n) ==
  site \o "1"

nanoid(site, n) ==
  site \o ToString(n[site] + 1)

Drawn(site, n) ==
  [n EXCEPT ![site] = @ + 1]

(* a registerComponent that does not look the component up first *)
registerComponentAlways(registry, idMap, n, component) ==
  [componentId |-> nanoid("c", n),
   componentRegistry |-> (component :> nanoid("c", n)) @@ registry,
   componentIdMap |-> (nanoid("c", n) :> component) @@ idMap,
   nanoidCount |-> Drawn("c", n)]

(* a registerComponent that does not fill the reverse map *)
registerComponentNoReverse(registry, idMap, n, component) ==
  IF component \in DOMAIN registry
    THEN [componentId |-> registry[component], componentRegistry |-> registry,
          componentIdMap |-> idMap, nanoidCount |-> n]
    ELSE [componentId |-> nanoid("c", n),
          componentRegistry |-> (component :> nanoid("c", n)) @@ registry,
          componentIdMap |-> idMap,
          nanoidCount |-> Drawn("c", n)]

(* registerComponent, as a function of the registry it reads *)
registerComponent(registry, idMap, n, component) ==
  IF component \in DOMAIN registry
    THEN [componentId |-> registry[component], componentRegistry |-> registry,
          componentIdMap |-> idMap, nanoidCount |-> n]
    ELSE [componentId |-> nanoid("c", n),
          componentRegistry |-> (component :> nanoid("c", n)) @@ registry,
          componentIdMap |-> (nanoid("c", n) :> component) @@ idMap,
          nanoidCount |-> Drawn("c", n)]

----------------------------------------------------------------------------
(* Object identity inside one store update.  A Map object is [ref, entries]:
   "state.modals" is the Map the store holds when the update starts, any other
   ref a Map the update creates.  An updater returns the state object it built
   (returned), the Map it put in it (modals), and the Map "state.modals" as the
   updater left it (stateModals) *)

StateModals(m) ==
  [ref |-> "state.modals", entries |-> m]

(* const newModals = state.modals: no copy *)
MapSame(src) ==
  src

(* new Map(state.modals) *)
MapCopy(src) ==
  [ref |-> "newModals", entries |-> src.entries]

(* what writing `after` into newModals does to the two Map objects *)
Written(state, newModals, after) ==
  [returned |-> "newState",
   modals |-> [newModals EXCEPT !.entries = after],
   stateModals |-> IF newModals.ref = state.ref
                     THEN [state EXCEPT !.entries = after]
                     ELSE state]

(* an updater that writes into state.modals and returns the state it was given *)
openModalUpdaterInPlace(m, id, componentId, props) ==
  LET after == MapSet(m, id, [id |-> id, componentId |-> componentId, props |-> props])
  IN  [returned |-> "state",
       modals |-> [ref |-> "state.modals", entries |-> after],
       stateModals |-> [ref |-> "state.modals", entries |-> after]]

(* the function openModal passes to set() *)
openModalUpdater(m, id, componentId, props) ==
  LET state == StateModals(m)
      newModals == MapCopy(state)
  IN  Written(state, newModals,
              MapSet(newModals.entries, id,
                     [id |-> id, componentId |-> componentId, props |-> props]))

(* the function closeModal passes to set() *)
closeModalUpdater(m, id) ==
  LET state == StateModals(m)
      newModals == MapCopy(state)
  IN  Written(state, newModals, MapDelete(newModals.entries, id))

(* the partial state { modals: new Map() } of the provider's cleanup *)
ClearedState(m) ==
  [returned |-> "partial",
   modals |-> [ref |-> "newMap", entries |-> NewMap],
   stateModals |-> StateModals(m)]

(* the store's set(): when the updater's result is not the state object itself
   (Object.is), it becomes the state and then every listener is called once with
   it.  modals: the entries of the new state's Map; calls: how many times each
   listener is called; seen: the entries a listener finds in the state it is
   handed; intact: the Map that was state.modals has the entries it had; fresh:
   the new state's Map is another object than the old one *)
setState(m, u) ==
  IF u.returned # "state"
    THEN [modals |-> u.modals.entries, calls |-> 1, seen |-> u.modals.entries,
          intact |-> (u.stateModals.entries = m),
          fresh |-> (u.modals.ref # "state.modals")]
    ELSE [modals |-> u.stateModals.entries, calls |-> 0, seen |-> NewMap,
          intact |-> (u.stateModals.entries = m), fresh |-> FALSE]

(* an operation that does not call set() *)
NoSet ==
  [modals |-> NewMap, calls |-> 0, seen |-> NewMap, intact |-> TRUE, fresh |-> FALSE]

(* what openModal's and closeModal's set() call does *)
openModalSet(m, id, componentId, props) ==
  setState(m, openModalUpdater(m, id, componentId, props))

closeModalSet(m, id) ==
  setState(m, closeModalUpdater(m, id))

(* useModalStore.openModal, called when nanoid() has produced n ids *)
openModal(n, id, component, props) ==
  LET r == registerComponent(componentRegistry, componentIdMap, n, component)
  IN  /\ componentRegistry' = r.componentRegistry
      /\ componentIdMap' = r.componentIdMap
      /\ nanoidCount' = r.nanoidCount
      /\ modals' = openModalSet(modals, id, r.componentId, props).modals

(* a closeModal that empties the store *)
closeModalClear(id) ==
  modals' = NewMap

(* useModalStore.closeModal *)
closeModal(id) ==
  modals' = closeModalSet(modals, id).modals

----------------------------------------------------------------------------
NoId ==
  ""

Unrendered ==
  [output |-> <<>>, warnings |-> <<>>]

(* history: which operation ran, the handle whose ids array it changed (0: none),
   what its set() call did (s, NoSet when it made none: sets is how many times
   each listener was called), how many entries it took out of the Map, for open
   the Map it found, for close whether it directly follows an open of the same
   handle *)
Did(op, h, s) ==
  last' = [op |-> op, h |-> h, sets |-> s.calls,
           removed |-> IF Len(modals') < Len(modals) THEN Len(modals) - Len(modals') ELSE 0,
           before |-> IF op = "open" THEN modals ELSE NewMap,
           afterOpen |-> (op = "close" /\ last.op = "open" /\ last.h = h),
           seen |-> s.seen, intact |-> s.intact, fresh |-> s.fresh]

(* the createModal calls the application makes when its modules load: two handles
   on the same component and one on another.  createModal returns a handle whose
   ids array is empty *)
ModuleHandles ==
  <<"SimpleModal", "SimpleModal", "TestModal">>

Init ==
  /\ modals = NewMap
  /\ componentRegistry = <<>>
  /\ componentIdMap = <<>>
  /\ nanoidCount = [m |-> 0, c |-> 0]
  /\ handles = ModuleHandles
  /\ ids = [h \in DOMAIN ModuleHandles |-> <<>>]
  /\ mounted = FALSE
  /\ rendered = Unrendered
  /\ opened = [h \in DOMAIN ModuleHandles |-> <<>>]
  /\ popped = {}
  /\ collided = FALSE
  /\ directCalls = 0
  /\ last = [op |-> "init", h |-> 0, sets |-> 0, removed |-> 0, before |-> NewMap,
             afterOpen |-> FALSE, seen |-> NewMap, intact |-> TRUE, fresh |-> FALSE]

----------------------------------------------------------------------------
(* Array.prototype.pop: undefined (here NoId, falsy like it) on an empty array *)

ArrayShift(a) ==
  IF a = <<>>
    THEN [value |-> NoId, rest |-> a]
    ELSE [value |-> a[1], rest |-> Tail(a)]

ArrayPop(a) ==
  IF a = <<>>
    THEN [value |-> NoId, rest |-> a]
    ELSE [value |-> a[Len(a)], rest |-> SubSeq(a, 1, Len(a) - 1)]

Truthy(s) ==
  s # NoId

(* history views: the ids the handles' open calls have returned, and who got which *)
IdsOpenedBy(h) ==
  { opened[h][i] : i \in DOMAIN opened[h] }

HandleIds ==
  UNION { IdsOpenedBy(h) : h \in DOMAIN opened }

RECURSIVE SumLen(_)
SumLen(ss) ==
  IF ss = <<>> THEN 0 ELSE Len(Head(ss)) + SumLen(Tail(ss))

TotalOpened ==
  SumLen(opened)

----------------------------------------------------------------------------
(* ModalRenderer: one array slot per store value, in Map order *)

Null ==
  [type |-> "null"]

RenderProps(modal) ==
  LET injected == ("id" :> Str(modal.id)) @@ ("close" :> CloseFn(modal.id))
  IN  IF modal.props.defined THEN modal.props.fields @@ injected ELSE injected

RenderOne(modal, idMap) ==
  IF modal.componentId \in DOMAIN idMap
    THEN [type |-> "element", Component |-> idMap[modal.componentId],
          key |-> modal.id, props |-> RenderProps(modal)]
    ELSE Null

Warning(componentId) ==
  "Modal component with ID " \o componentId \o " not found"

(* a render pass that gives up on the whole snapshot at an unknown component id *)
ModalRendererAbort(m, idMap) ==
  LET values == MapValues(m)
      missing == SelectSeq(values, LAMBDA modal : modal.componentId \notin DOMAIN idMap)
  IN  IF missing = <<>>
        THEN [output |-> [i \in DOMAIN values |-> RenderOne(values[i], idMap)],
              warnings |-> <<>>]
        ELSE [output |-> [i \in DOMAIN values |-> Null],
              warnings |-> <<Warning(missing[1].componentId)>>]

ModalRenderer(m, idMap) ==
  LET values == MapValues(m)
      missing == SelectSeq(values, LAMBDA modal : modal.componentId \notin DOMAIN idMap)
  IN  [output |-> [i \in DOMAIN values |-> RenderOne(values[i], idMap)],
       warnings |-> [i \in DOMAIN missing |-> Warning(missing[i].componentId)]]

----------------------------------------------------------------------------
(* The operations *)

(* createModal(...).open(props) *)
open(h, props) ==
  LET id == nanoid("m", nanoidCount)
  IN  /\ TotalOpened + directCalls < MaxOpens
      /\ ids' = [ids EXCEPT ![h] = Append(@, id)]
      /\ openModal(Drawn("m", nanoidCount), id, handles[h], props)
      /\ opened' = [opened EXCEPT ![h] = Append(@, id)]
      /\ Did("open", h,
             openModalSet(modals, id,
                          registerComponent(componentRegistry, componentIdMap,
                                            Drawn("m", nanoidCount), handles[h]).componentId,
                          props))
      /\ UNCHANGED <<handles, mounted, rendered, popped, collided, directCalls>>

(* a close that takes the last entry of the store, whoever opened it *)
closeLastOfStore(h) ==
  LET p == ArrayPop(ids[h])
      target == IF modals = <<>> THEN NoId ELSE modals[Len(modals)].key
  IN  /\ ids' = [ids EXCEPT ![h] = p.rest]
      /\ IF Truthy(p.value)
            THEN closeModal(target) /\ Did("close", h, closeModalSet(modals, target))
            ELSE UNCHANGED modals /\ Did("close", 0, NoSet)
      /\ popped' = IF Truthy(p.value) THEN popped \cup {p.value} ELSE popped
      /\ UNCHANGED <<componentRegistry, componentIdMap, nanoidCount, handles,
                     mounted, rendered, opened, collided, directCalls>>

(* a close that pops the id and leaves the store alone *)
closeForgets(h) ==
  LET p == ArrayPop(ids[h])
  IN  /\ ids' = [ids EXCEPT ![h] = p.rest]
      /\ UNCHANGED modals
      /\ Did("close", IF Truthy(p.value) THEN h ELSE 0, NoSet)
      /\ popped' = IF Truthy(p.value) THEN popped \cup {p.value} ELSE popped
      /\ UNCHANGED <<componentRegistry, componentIdMap, nanoidCount, handles,
                     mounted, rendered, opened, collided, directCalls>>

(* createModal(...).close() *)
close(h) ==
  LET p == ArrayPop(ids[h])
  IN  /\ ids' = [ids EXCEPT ![h] = p.rest]
      /\ IF Truthy(p.value)
            THEN closeModal(p.value) /\ Did("close", h, closeModalSet(modals, p.value))
            ELSE UNCHANGED modals /\ Did("close", 0, NoSet)
      /\ popped' = IF Truthy(p.value) THEN popped \cup {p.value} ELSE popped
      /\ UNCHANGED <<componentRegistry, componentIdMap, nanoidCount, handles,
                     mounted, rendered, opened, collided, directCalls>>

(* useModalStore.getState().openModal(id, component, props), called by the application *)
OpenModalCall(id, component, props) ==
  /\ TotalOpened + directCalls < MaxOpens
  /\ openModal(nanoidCount, id, component, props)
  /\ collided' = (collided \/ id \in HandleIds)
  /\ directCalls' = directCalls + 1
  /\ Did("openModal", 0,
         openModalSet(modals, id,
                      registerComponent(componentRegistry, componentIdMap,
                                        nanoidCount, component).componentId,
                      props))
  /\ UNCHANGED <<handles, ids, mounted, rendered, opened, popped>>

(* useModalStore.getState().closeModal(id), called by the application *)
CloseModalCall(id) ==
  /\ closeModal(id)
  /\ Did("closeModal", 0, closeModalSet(modals, id))
  /\ UNCHANGED <<componentRegistry, componentIdMap, nanoidCount, handles, ids,
                 mounted, rendered, opened, popped, collided, directCalls>>

(* ModalProvider mounts: its ModalRenderer renders the current snapshot *)
Mount ==
  /\ ~mounted
  /\ mounted' = TRUE
  /\ rendered' = ModalRenderer(modals, componentIdMap)
  /\ UNCHANGED <<modals, componentRegistry, componentIdMap, nanoidCount, handles,
                 ids, opened, popped, collided, directCalls>>
  /\ Did("mount", 0, NoSet)

(* a render pass of ModalRenderer, whenever the host framework schedules it *)
Render ==
  /\ mounted
  /\ rendered' = ModalRenderer(modals, componentIdMap)
  /\ UNCHANGED <<modals, componentRegistry, componentIdMap, nanoidCount, handles,
                 ids, mounted, opened, popped, collided, directCalls>>
  /\ Did("render", 0, NoSet)

(* an injected close that closes whatever was opened last *)
InjectedCloseTop(i) ==
  LET top == IF modals = <<>> THEN NoId ELSE modals[Len(modals)].key
  IN  /\ mounted
      /\ i \in DOMAIN rendered.output
      /\ rendered.output[i].type = "element"
      /\ rendered.output[i].props["close"].type = "closeModal"
      /\ closeModal(top)
      /\ Did("injectedClose", 0, closeModalSet(modals, top))
      /\ UNCHANGED <<componentRegistry, componentIdMap, nanoidCount, handles, ids,
                     mounted, rendered, opened, popped, collided, directCalls>>

(* an injected close that also takes its id off the array of the handle that
   opened the instance *)
InjectedCloseSplices(i) ==
  /\ mounted
  /\ i \in DOMAIN rendered.output
  /\ rendered.output[i].type = "element"
  /\ rendered.output[i].props["close"].type = "closeModal"
  /\ closeModal(rendered.output[i].props["close"].v)
  /\ ids' = [h \in DOMAIN ids |->
               SelectSeq(ids[h], LAMBDA x : x # rendered.output[i].props["close"].v)]
  /\ Did("injectedClose", 0, closeModalSet(modals, rendered.output[i].props["close"].v))
  /\ UNCHANGED <<componentRegistry, componentIdMap, nanoidCount, handles,
                 mounted, rendered, opened, popped, collided, directCalls>>

(* the i-th rendered component calls the close prop it was handed *)
InjectedClose(i) ==
  /\ mounted
  /\ i \in DOMAIN rendered.output
  /\ rendered.output[i].type = "element"
  /\ rendered.output[i].props["close"].type = "closeModal"
  /\ closeModal(rendered.output[i].props["close"].v)
  /\ Did("injectedClose", 0, closeModalSet(modals, rendered.output[i].props["close"].v))
  /\ UNCHANGED <<componentRegistry, componentIdMap, nanoidCount, handles, ids,
                 mounted, rendered, opened, popped, collided, directCalls>>

(* a cleanup that closes the instances the renderer has on screen *)
UnmountClosesRendered ==
  /\ mounted
  /\ modals' = SelectSeq(modals, LAMBDA e :
                   ~ \E i \in DOMAIN rendered.output :
                       /\ rendered.output[i].type = "element"
                       /\ rendered.output[i].key = e.key)
  /\ mounted' = FALSE
  /\ rendered' = Unrendered
  /\ Did("unmount", 0, setState(modals, ClearedState(modals)))
  /\ UNCHANGED <<componentRegistry, componentIdMap, nanoidCount, handles, ids,
                 opened, popped, collided, directCalls>>

(* a cleanup that also empties the reverse registry *)
UnmountClearsRegistry ==
  /\ mounted
  /\ modals' = setState(modals, ClearedState(modals)).modals
  /\ componentIdMap' = <<>>
  /\ mounted' = FALSE
  /\ rendered' = Unrendered
  /\ Did("unmount", 0, setState(modals, ClearedState(modals)))
  /\ UNCHANGED <<componentRegistry, nanoidCount, handles, ids,
                 opened, popped, collided, directCalls>>

(* ModalProvider unmounts: the effect cleanup runs setState({ modals: new Map() }) *)
Unmount ==
  /\ mounted
  /\ modals' = setState(modals, ClearedState(modals)).modals
  /\ mounted' = FALSE
  /\ rendered' = Unrendered
  /\ Did("unmount", 0, setState(modals, ClearedState(modals)))
  /\ UNCHANGED <<componentRegistry, componentIdMap, nanoidCount, handles, ids,
                 opened, popped, collided, directCalls>>

DirectProps ==
  { Obj(<<>>) }

CallerIds ==
  {TestId} \cup HandleIds

Next ==
  \/ \E h \in DOMAIN handles, p \in UserProps : open(h, p)
  \/ \E h \in DOMAIN handles : close(h)
  \/ \E id \in CallerIds, c \in Components, p \in DirectProps : OpenModalCall(id, c, p)
  \/ \E id \in CallerIds : CloseModalCall(id)
  \/ Mount
  \/ Render
  \/ \E i \in DOMAIN rendered.output : InjectedClose(i)
  \/ Unmount

Spec ==
  Init /\ [][Next]_vars

----------------------------------------------------------------------------
(* The application writes the store state itself, as the test of the renderer's
   warning does: an instance whose componentId was never registered *)

InvalidModal ==
  [id |-> "invalid-modal", componentId |-> "non-existent-component", props |-> Obj(<<>>)]

(* the Maps such a write installs: the invalid instance alone, or the entries of
   the current Map and the invalid instance *)
WrittenMaps ==
  { MapSet(NewMap, InvalidModal.id, InvalidModal),
    MapSet(modals, InvalidModal.id, InvalidModal) }

(* the partial state { modals: written } *)
WrittenState(m, written) ==
  [returned |-> "partial",
   modals |-> [ref |-> "newMap", entries |-> written],
   stateModals |-> StateModals(m)]

(* useModalStore.setState({ modals: new Map([...]) }), called by the application *)
SetStateCall(written) ==
  /\ TotalOpened + directCalls < MaxOpens
  /\ modals' = setState(modals, WrittenState(modals, written)).modals
  /\ directCalls' = directCalls + 1
  /\ Did("setState", 0, setState(modals, WrittenState(modals, written)))
  /\ UNCHANGED <<componentRegistry, componentIdMap, nanoidCount, handles, ids,
                 mounted, rendered, opened, popped, collided>>

NextW ==
  \/ Next
  \/ \E written \in WrittenMaps : SetStateCall(written)

SpecW ==
  Init /\ [][NextW]_vars

----------------------------------------------------------------------------
(* Views of the history used by the properties *)

RECURSIVE Without(_, _)
Without(m, k) ==
  IF m = <<>> THEN <<>>
  ELSE IF Head(m).key = k THEN Without(Tail(m), k)
  ELSE <<Head(m)>> \o Without(Tail(m), k)

Max(S) ==
  CHOOSE x \in S : \A y \in S : y <= x

(* positions in opened[h] of the ids handle h pushed and has not popped yet *)
Unpopped(h) ==
  { i \in DOMAIN opened[h] : opened[h][i] \notin popped }

(* positions in opened[h] of the ids of handle h that are keys of the store *)
Present(h) ==
  { i \in DOMAIN opened[h] : MapHas(modals, opened[h][i]) }

----------------------------------------------------------------------------
(* C1. Stack ownership isolation: a close() of handle h never takes out of the
   store an entry whose id was returned by the open() of another handle, whether
   the two handles bind the same component or different ones: every such entry
   of the store before the call is an entry of the store after it. *)
C1_OwnershipIsolation ==
  [][\A h \in DOMAIN handles :
        close(h) =>
          \A i \in DOMAIN modals :
            modals[i].key \in (HandleIds \ IdsOpenedBy(h))
              => \E j \in DOMAIN modals' : modals'[j] = modals[i]]_vars

(* h1.open(), h2.open(), h1.close() on two handles of the same component: only
   h2's instance is left *)
C1_Witness ==
  \E h1, h2 \in DOMAIN handles :
    /\ h1 # h2
    /\ handles[h1] = handles[h2]
    /\ opened[h1] = <<"m1">>
    /\ opened[h2] = <<"m2">>
    /\ last.op = "close" /\ last.h = h1 /\ last.removed = 1
    /\ MapKeys(modals) = {"m2"}
    /\ ~collided

(* C2. Per-handle LIFO close: when ids of handle h is not empty, close() pops the
   id h.open() pushed last among those not popped yet, and the store afterwards
   is the store before without the entry of exactly that id. *)
C2_LifoClose ==
  [][\A h \in DOMAIN handles :
        (close(h) /\ ids[h] # <<>>) =>
          /\ Unpopped(h) # {}
          /\ LET id == opened[h][Max(Unpopped(h))]
             IN  /\ popped' = popped \cup {id}
                 /\ modals' = Without(modals, id)
                 /\ ids'[h] = SubSeq(ids[h], 1, Len(ids[h]) - 1)]_vars

(* open({title: "A"}), open(...), close() on one handle: the first instance is
   left, with its props *)
C2_Witness ==
  \E h \in DOMAIN handles :
    /\ opened[h] = <<"m1", "m2">>
    /\ last.op = "close" /\ last.h = h
    /\ popped = {"m2"}
    /\ MapKeys(modals) = {"m1"}
    /\ MapGet(modals, "m1").props = Obj("title" :> Str("A"))

(* C3. Handle close closes the most recently opened modal of that handle: whenever
   an instance opened by handle h is in the store (and no direct openModal call
   has reused a handle's id), h.close() takes the most recently opened of h's
   instances that are in the store out of it. *)
C3_ClosesMostRecentPresent ==
  [][\A h \in DOMAIN handles :
        (close(h) /\ ~collided /\ Present(h) # {})
          => ~MapHas(modals', opened[h][Max(Present(h))])]_vars

(* C4. Injected props contract: every element the renderer returns carries, as id,
   the id of its instance and, as close, the function that removes that instance,
   whatever props the caller passed to open. *)
C4_InjectedProps ==
  \A i \in DOMAIN rendered.output :
    rendered.output[i].type = "element" =>
      /\ rendered.output[i].props["id"] = Str(rendered.output[i].key)
      /\ rendered.output[i].props["close"] = CloseFn(rendered.output[i].key)

(* C5. Teardown clears all: the state the provider's unmount leaves has no
   instance in the store, whoever opened them and whenever. *)
C5_TeardownClearsAll ==
  last.op = "unmount" => modals = <<>>

(* an unmount that found one instance opened by a handle and one opened by a
   direct openModal call, and removed both *)
C5_Witness ==
  /\ last.op = "unmount"
  /\ last.removed = 2
  /\ TotalOpened = 1
  /\ directCalls = 1
  /\ ~collided
  /\ popped = {}

(* C6. Open/close inverse: h.open() makes the store one entry longer, and an
   h.close() that directly follows it makes it one entry shorter and gives back
   the Map that open found. *)
C6_OpenCloseInverse ==
  [][/\ \A h \in DOMAIN handles, p \in UserProps :
          open(h, p) => Len(modals') = Len(modals) + 1
     /\ \A h \in DOMAIN handles :
          (close(h) /\ last.op = "open" /\ last.h = h)
            => /\ Len(modals') = Len(modals) - 1
               /\ modals' = last.before]_vars

(* a close right after an open of the same handle, in a store that held another
   instance *)
C6_Witness ==
  /\ last.op = "close"
  /\ last.afterOpen
  /\ last.removed = 1
  /\ Len(modals) = 1

C8_OpenComplete ==
  [][\A h \in DOMAIN handles, p \in UserProps :
        open(h, p) =>
          LET id == opened'[h][Len(opened'[h])]
          IN  /\ id \notin HandleIds
              /\ MapHas(modals', id)
              /\ handles[h] \in DOMAIN componentRegistry'
              /\ componentIdMap'[componentRegistry'[handles[h]]] = handles[h]
              /\ MapGet(modals', id) =
                   [id |-> id, componentId |-> componentRegistry'[handles[h]], props |-> p]
              /\ ids'[h] # <<>>
              /\ ids'[h][Len(ids'[h])] = id]_vars

(* the second open: its id differs from the first and tops the handle's ids *)
C8_Witness ==
  /\ last.op = "open"
  /\ TotalOpened = 2
  /\ ids[last.h][Len(ids[last.h])] = "m2"
  /\ MapHas(modals, "m1")
  /\ MapHas(modals, "m2")

(* C9. openModal(id, component, props) with an id that is no key of the store
   appends the one entry id -> {id, id of the component, props} and leaves the
   entries that were there as they were, in their order. *)
C9_OpenModalAppends ==
  [][\A id \in CallerIds, c \in Components, p \in DirectProps :
        (OpenModalCall(id, c, p) /\ ~MapHas(modals, id)) =>
          /\ Len(modals') = Len(modals) + 1
          /\ SubSeq(modals', 1, Len(modals)) = modals
          /\ c \in DOMAIN componentRegistry'
          /\ modals'[Len(modals')] =
               [key |-> id,
                value |-> [id |-> id, componentId |-> componentRegistry'[c], props |-> p]]]_vars

(* a direct openModal("test-id", ...) into a store that held a handle's instance *)
C9_Witness ==
  /\ last.op = "openModal"
  /\ Len(modals) = 2
  /\ modals[1].key = "m1"
  /\ modals[2].key = TestId

(* C10. closeModal(id) with id a key of the store removes that entry and no
   other: the Map afterwards is the Map before without it, in the same order. *)
C10_CloseModalRemovesOne ==
  [][\A id \in CallerIds :
        (CloseModalCall(id) /\ MapHas(modals, id)) =>
          /\ ~MapHas(modals', id)
          /\ Len(modals') = Len(modals) - 1
          /\ modals' = Without(modals, id)]_vars

(* a direct closeModal that removed the first of two instances *)
C10_Witness ==
  /\ last.op = "closeModal"
  /\ last.removed = 1
  /\ MapKeys(modals) = {"m2"}
  /\ popped = {}

(* C11. closeModal(id) with an id that is no key of the store is a no-op: the
   entries and their order stay, no new Map object becomes the state's modals
   and no listener is called. *)
C11_AbsentCloseNoNewSnapshot ==
  [][\A id \in CallerIds :
        (CloseModalCall(id) /\ ~MapHas(modals, id)) =>
          /\ modals' = modals
          /\ ~last'.fresh
          /\ last'.sets = 0]_vars

(* C12. Snapshot immutability: whenever an operation has called set(), the Map
   object that was the state's modals before the call has the entries it had, the
   state's modals is another Map object, and the Map an open found does not hold
   the id that open inserted. *)
C12_SnapshotImmutability ==
  /\ last.sets > 0 => (last.intact /\ last.fresh)
  /\ last.op = "open" =>
        /\ ~MapHas(last.before, modals[Len(modals)].key)
        /\ MapHas(modals, opened[last.h][Len(opened[last.h])])

(* an injected close took one of two instances out: the Map held before the call
   still has both *)
C12_Witness ==
  /\ last.op = "injectedClose"
  /\ last.removed = 1
  /\ Len(modals) = 1
  /\ last.intact
  /\ last.fresh

(* C13. Injected self-close is id-addressed: the close handed to the element of
   instance X leaves the store as it was without the entry of X (as it was, when
   X is no key of it any more) and leaves every handle's ids array as it was. *)
C13_InjectedCloseById ==
  [][\A i \in DOMAIN rendered.output :
        InjectedClose(i) =>
          /\ modals' = Without(modals, rendered.output[i].key)
          /\ ids' = ids]_vars

(* the instance a handle opened first closes itself: the one the same handle
   opened later stays, and both ids stay on the handle's array *)
C13_Witness ==
  \E h \in DOMAIN handles :
    /\ opened[h] = <<"m1", "m2">>
    /\ ids[h] = <<"m1", "m2">>
    /\ last.op = "injectedClose"
    /\ last.removed = 1
    /\ MapKeys(modals) = {"m2"}

(* C14. Registration idempotence and round trip: in every reachable registry,
   registering a component and registering it again give the same id, the id a
   registered component already has; the reverse map resolves that id to the
   component; registering another component gives another id; and every entry a
   handle's open put in the store carries the id of the handle's component, the
   same id for all handles bound to that component. *)
C14_RegistrationIdempotent ==
  /\ \A c \in Components :
        LET r1 == registerComponent(componentRegistry, componentIdMap, nanoidCount, c)
            r2 == registerComponent(r1.componentRegistry, r1.componentIdMap,
                                    r1.nanoidCount, c)
        IN  /\ r2.componentId = r1.componentId
            /\ r2.componentRegistry = r1.componentRegistry
            /\ r2.componentIdMap = r1.componentIdMap
            /\ c \in DOMAIN componentRegistry => r1.componentId = componentRegistry[c]
            /\ r1.componentId \in DOMAIN r1.componentIdMap
            /\ r1.componentIdMap[r1.componentId] = c
            /\ \A d \in Components \ {c} :
                  registerComponent(r1.componentRegistry, r1.componentIdMap,
                                    r1.nanoidCount, d).componentId # r1.componentId
  /\ ~collided =>
        \A h \in DOMAIN handles, i \in DOMAIN modals :
          modals[i].key \in IdsOpenedBy(h) =>
            /\ handles[h] \in DOMAIN componentRegistry
            /\ modals[i].value.componentId = componentRegistry[handles[h]]

(* two handles bound to the same component have one instance each in the store:
   one component id was drawn and both entries carry it *)
C14_Witness ==
  \E h1, h2 \in DOMAIN handles :
    /\ h1 # h2
    /\ handles[h1] = handles[h2]
    /\ opened[h1] = <<"m1">>
    /\ opened[h2] = <<"m2">>
    /\ Len(modals) = 2
    /\ modals[1].value.componentId = modals[2].value.componentId
    /\ nanoidCount.c = 1
    /\ ~collided

(* the forward and the reverse registry are each other's inverse *)
RegistryConsistent ==
  /\ \A c \in DOMAIN componentRegistry :
        /\ componentRegistry[c] \in DOMAIN componentIdMap
        /\ componentIdMap[componentRegistry[c]] = c
  /\ \A i \in DOMAIN componentIdMap :
        /\ componentIdMap[i] \in DOMAIN componentRegistry
        /\ componentRegistry[componentIdMap[i]] = i

(* C15. Registry permanence: before and after every step the forward and the
   reverse registry are each other's inverse, and every step keeps each entry of
   both: a component that has an id keeps that id and the id keeps resolving to
   that component. *)
C15_RegistryPermanence ==
  [][/\ RegistryConsistent
     /\ RegistryConsistent'
     /\ \A c \in DOMAIN componentRegistry :
           /\ c \in DOMAIN componentRegistry'
           /\ componentRegistry'[c] = componentRegistry[c]
     /\ \A i \in DOMAIN componentIdMap :
           /\ i \in DOMAIN componentIdMap'
           /\ componentIdMap'[i] = componentIdMap[i]]_vars

(* the provider unmounted after both components were registered: the store is
   empty and both registrations are still there *)
C15_Witness ==
  /\ last.op = "unmount"
  /\ last.removed = 2
  /\ modals = <<>>
  /\ DOMAIN componentRegistry = Components
  /\ Cardinality(DOMAIN componentIdMap) = 2

(* C16. Unknown component id at render time: a render pass leaves the store as
   it is and returns one slot per instance, in the Map's order: the element of
   the instance, with its key and its component, when the componentId resolves,
   and nothing (null) otherwise, in which case a warning naming the componentId
   was emitted; there are as many warnings as unresolved instances. *)
C16_UnknownComponentSkipped ==
  [][(Mount \/ Render) =>
       /\ modals' = modals
       /\ Len(rendered'.output) = Len(modals)
       /\ \A i \in DOMAIN modals :
            IF modals[i].value.componentId \in DOMAIN componentIdMap
              THEN /\ rendered'.output[i].type = "element"
                   /\ rendered'.output[i].key = modals[i].key
                   /\ rendered'.output[i].Component =
                        componentIdMap[modals[i].value.componentId]
              ELSE /\ rendered'.output[i] = [type |-> "null"]
                   /\ modals[i].value.componentId = "non-existent-component"
                   /\ \E w \in DOMAIN rendered'.warnings :
                        rendered'.warnings[w] =
                          "Modal component with ID non-existent-component not found"
       /\ Len(rendered'.warnings) =
            Cardinality({ i \in DOMAIN modals :
                            modals[i].value.componentId \notin DOMAIN componentIdMap })]_vars

(* a render pass over a handle's instance followed by the invalid instance: one
   element, one empty slot, one warning, both entries still in the store *)
C16_Witness ==
  /\ last.op = "render"
  /\ Len(modals) = 2
  /\ modals[1].key = "m1"
  /\ modals[2].key = "invalid-modal"
  /\ rendered.output[1].type = "element"
  /\ rendered.output[2].type = "null"
  /\ rendered.warnings = <<"Modal component with ID non-existent-component not found">>

(* C17. Subscriber notification: every open and openModal, every close,
   closeModal and injected close that took an entry out, and every unmount has
   called each listener exactly once, and the state a listener was handed holds
   the Map as the operation left it; mount, render and a close on an empty ids
   array call no listener. *)
C17_NotifiedOnceAfter ==
  /\ (\/ last.op \in {"open", "openModal", "unmount"}
      \/ (last.op \in {"close", "closeModal", "injectedClose"} /\ last.removed > 0))
        => (last.sets = 1 /\ last.seen = modals)
  /\ (last.op \in {"init", "mount", "render"} \/ (last.op = "close" /\ last.h = 0))
        => last.sets = 0

(* a direct openModal while the provider's renderer is subscribed, into a store
   that held an instance: the listeners were handed both entries *)
C17_Witness ==
  /\ last.op = "openModal"
  /\ mounted
  /\ last.sets = 1
  /\ Len(last.seen) = 2
  /\ last.seen[2].key = TestId

(* which open call, counted over all handles, returned the id *)
OpenIndex(id) ==
  CHOOSE n \in 1..nanoidCount.m : id = "m" \o ToString(n)

(* C18. Render order: what a render pass returns holds exactly one element per
   instance of the snapshot whose component resolves, keyed by the instance's
   id, in the Map's order; as long as no direct openModal call has inserted an
   id a handle generated, the elements of instances opened by handles follow
   each other in the order of the open calls, whichever handles made them. *)
C18_RenderOrder ==
  last.op \in {"mount", "render"} =>
    LET elements == SelectSeq(rendered.output, LAMBDA e : e.type = "element")
        resolving == SelectSeq(modals, LAMBDA e :
                                 e.value.componentId \in DOMAIN componentIdMap)
    IN  /\ Len(elements) = Len(resolving)
        /\ \A j \in DOMAIN elements : elements[j].key = resolving[j].key
        /\ \A j, k \in DOMAIN elements :
              /\ j # k => elements[j].key # elements[k].key
              /\ (/\ j < k
                  /\ ~collided
                  /\ elements[j].key \in HandleIds
                  /\ elements[k].key \in HandleIds)
                    => OpenIndex(elements[j].key) < OpenIndex(elements[k].key)

(* a render pass over the instances of two handles on different components: two
   elements, the one opened first in front *)
C18_Witness ==
  \E h1, h2 \in DOMAIN handles :
    /\ handles[h1] # handles[h2]
    /\ opened[h1] = <<"m1">>
    /\ opened[h2] = <<"m2">>
    /\ last.op = "render"
    /\ Len(rendered.output) = 2
    /\ rendered.output[1].type = "element"
    /\ rendered.output[2].type = "element"
    /\ rendered.output[1].key = "m1"
    /\ rendered.output[2].key = "m2"
    /\ rendered.output[1].Component # rendered.output[2].Component
    /\ ~collided

(* C19. Duplicate id collision: openModal(id, component, props) with an id that
   is a key of the store leaves the number of entries, leaves every other entry
   as and where it was, and makes the entry of id {id, the id of the component
   passed, the props passed}. *)
C19_CollisionOverwrites ==
  [][\A id \in CallerIds, c \in Components, p \in DirectProps :
        (OpenModalCall(id, c, p) /\ MapHas(modals, id)) =>
          /\ Len(modals') = Len(modals)
          /\ \A i \in DOMAIN modals : modals[i].key # id => modals'[i] = modals[i]
          /\ c \in DOMAIN componentRegistry'
          /\ modals'[MapIndex(modals, id)] =
               [key |-> id,
                value |-> [id |-> id, componentId |-> componentRegistry'[c], props |-> p]]]_vars

(* openModal("m1", TestModal, {}) on the instance a handle bound to SimpleModal
   opened: still one entry, which now carries TestModal's id and the empty props *)
C19_Witness ==
  \E h \in DOMAIN handles :
    /\ handles[h] = "SimpleModal"
    /\ opened[h] = <<"m1">>
    /\ last.op = "openModal"
    /\ collided
    /\ Len(modals) = 1
    /\ modals[1].key = "m1"
    /\ "TestModal" \in DOMAIN componentRegistry
    /\ modals[1].value.componentId = componentRegistry["TestModal"]
    /\ modals[1].value.props = Obj(<<>>)

(* C20. A handle's ids array changes only in a step of that handle's open or
   close; after every step it holds, in order, the ids the handle's open returned
   that no close has popped, so its length is the number of the handle's opens
   minus the number of its closes that found it non-empty, whatever the store
   holds. *)
C20_StackOnlyOwnOps ==
  [][\A h \in DOMAIN handles :
        /\ ids'[h] # ids[h] => ((\E p \in UserProps : open(h, p)) \/ close(h))
        /\ ids'[h] = SelectSeq(opened'[h], LAMBDA x : x \notin popped')
        /\ Len(ids'[h]) =
             Len(opened'[h])
               - Cardinality({ i \in DOMAIN opened'[h] : opened'[h][i] \in popped' })]_vars

(* two opens and a close of one handle, then the provider unmounted: the store is
   empty and the id opened first is still on the handle's array *)
C20_Witness ==
  \E h \in DOMAIN handles :
    /\ opened[h] = <<"m1", "m2">>
    /\ popped = {"m2"}
    /\ ids[h] = <<"m1">>
    /\ last.op = "unmount"
    /\ last.removed = 1
    /\ modals = <<>>

(* the ids on the ids array of handle h *)
OnStack(h) ==
  { ids[h][i] : i \in DOMAIN ids[h] }

(* C21. A handle never loses track of a live instance it opened: as long as no
   direct openModal call has inserted an id a handle generated, every key of the
   store that the open of handle h returned is on the ids array of h and on the
   ids array of no other handle. *)
C21_LiveInstanceOnOwnStack ==
  ~collided =>
    \A h \in DOMAIN handles, i \in DOMAIN modals :
      modals[i].key \in IdsOpenedBy(h) =>
        /\ modals[i].key \in OnStack(h)
        /\ \A g \in DOMAIN handles \ {h} : modals[i].key \notin OnStack(g)

(* a handle opened two instances and closeModal took the second out of the
   store: the first is in the store and on the array, the second only on the
   array *)
C21_Witness ==
  \E h \in DOMAIN handles :
    /\ opened[h] = <<"m1", "m2">>
    /\ ids[h] = <<"m1", "m2">>
    /\ last.op = "closeModal"
    /\ last.removed = 1
    /\ MapKeys(modals) = {"m1"}
    /\ ~collided

(* C22. Every entry of the store after a step has its id as key and a
   componentId the reverse registry resolves; it is an entry the store already
   had, whose componentId resolves as before, or the entry this step's open or
   openModal inserted, whose componentId resolves to the component of the handle
   or the component passed; and no render pass has emitted the unknown-component
   warning. *)
C22_EntriesResolve ==
  [][/\ \A i \in DOMAIN modals' :
          /\ modals'[i].key = modals'[i].value.id
          /\ modals'[i].value.componentId \in DOMAIN componentIdMap'
          /\ \/ \E j \in DOMAIN modals :
                   /\ modals[j] = modals'[i]
                   /\ modals[j].value.componentId \in DOMAIN componentIdMap
                   /\ componentIdMap'[modals[j].value.componentId] =
                        componentIdMap[modals[j].value.componentId]
             \/ \E h \in DOMAIN handles, p \in UserProps :
                   /\ open(h, p)
                   /\ modals'[i].key = opened'[h][Len(opened'[h])]
                   /\ modals'[i].value.props = p
                   /\ componentIdMap'[modals'[i].value.componentId] = handles[h]
             \/ \E id \in CallerIds, c \in Components, p \in DirectProps :
                   /\ OpenModalCall(id, c, p)
                   /\ modals'[i].key = id
                   /\ modals'[i].value.props = p
                   /\ componentIdMap'[modals'[i].value.componentId] = c
     /\ rendered'.warnings = <<>>
     /\ \A i \in DOMAIN rendered'.output : rendered'.output[i].type = "element"]_vars

(* a render pass over an instance a handle opened and one a direct openModal
   inserted: two elements, no warning *)
C22_Witness ==
  /\ last.op = "render"
  /\ TotalOpened = 1
  /\ directCalls = 1
  /\ ~collided
  /\ Len(modals) = 2
  /\ Len(rendered.output) = 2
  /\ rendered.output[1].type = "element"
  /\ rendered.output[2].type = "element"
  /\ rendered.warnings = <<>>

====
